---- MODULE Spec2Model ----
(***************************************************************************)
(* Model of scwoaservices: the service configuration record (rules.py),    *)
(* the request/response adaptation decorators (decorators.py), the         *)
(* service error handler (errors.py) and the documentation-site generator  *)
(* (tools/create_docu.py).                                                 *)
(*                                                                         *)
(* Python strings that are formatted or split by the code are sequences of *)
(* one-character strings; log and exception messages are tuples of their   *)
(* f-string parts.                                                         *)
(***************************************************************************)
EXTENDS Integers, Sequences, FiniteSets, TLC

VARIABLES
    rules,          \* BaseServiceRules fields
    appConfig,      \* rules.app.config (the swagger settings)
    reconfigs,      \* number of reconfig calls made so far
    pc,             \* position of the request in the decorator stack
    request,        \* the request being served: body and endpoint
    kwargs,         \* keyword arguments api_inputmodel passes to the wrapped function
    handlerCalls,   \* how often the endpoint function ran for this request
    handlerArgs,    \* the keyword arguments the endpoint function received
    service_result, \* what the endpoint function returned
    inner_result,   \* what the function wrapped by api_inputmodel returned
    exception,      \* the exception leaving the decorator stack
    delegated,      \* the exception handed to the framework's default handler
    response,       \* the HTTP response of the request
    log,            \* log records written while serving the request
    stages,         \* stage events of the request, in order
    served,         \* number of requests received so far
    fs,             \* the working directory of the documentation generator
    fs0,            \* the working directory when the current run started
    dpc,            \* position of the documentation generator's main()
    toolStatus,     \* exit statuses of the external tools run so far
    exitCode,       \* exit code of the generator process
    runs            \* number of generator runs started so far

rulesVars == <<rules, appConfig, reconfigs>>
requestVars == <<pc, request, kwargs, handlerCalls, handlerArgs,
                 service_result, inner_result, exception, delegated,
                 response, log, stages, served>>
docuVars == <<fs, fs0, dpc, toolStatus, exitCode, runs>>
vars == <<rulesVars, requestVars, docuVars>>

None == [t |-> "None"]

MaxReconfigs == 2
MaxRequests == 2
MaxRuns == 2

(***************************************************************************)
(* rules.py: BaseServiceRules                                              *)
(***************************************************************************)

\* str(port) of a non-negative int.
RECURSIVE IntToStr(_)
IntToStr(n) ==
    LET d == <<"0", "1", "2", "3", "4", "5", "6", "7", "8", "9">>
    IN  IF n < 10 THEN <<d[n + 1]>> ELSE IntToStr(n \div 10) \o <<d[(n % 10) + 1]>>

\* f'{self.host}:{self.port}'
ApiHost(host, port) == host \o <<":">> \o IntToStr(port)

Hosts == {<<"l", "h">>, <<"0", ".", "0">>}
Ports == {0, 80, 8080}
Modes == {"devl", "staging", "prod"}
ServiceNames == {"svc", "auth"}

\* The record as the dataclass constructor leaves it, before __post_init__.
NewRules(servicename, host, port, debug, mode) ==
    [servicename |-> servicename, host |-> host, port |-> port,
     debug |-> debug, title |-> "title", description |-> "description",
     contact_email |-> "mail", version |-> None, app |-> None,
     produces_content_types |-> <<"application/json">>,
     workers |-> 1, mode |-> mode]

\* get_distribution(servicename).version, or '' when it raises.
Versions == {<<>>, <<"1", ".", "0">>}

PostInitRules(r, version) == [r EXCEPT !.version = version, !.app = "Sanic"]

PostInitConfig(r) ==
    [API_VERSION |-> r.version,
     API_TITLE |-> r.title,
     API_DESCRIPTION |-> r.description,
     API_PRODUCES_CONTENT_TYPES |-> r.produces_content_types,
     API_CONTACT_EMAIL |-> r.contact_email,
     API_HOST |-> ApiHost(r.host, r.port),
     error_handler |-> "ServiceErrorHandler"]

ReconfigKeepsApiHost(host, port, mode) ==
    /\ reconfigs < MaxReconfigs
    /\ rules' = [rules EXCEPT !.host = host, !.port = port, !.mode = mode]
    /\ appConfig' = appConfig
    /\ reconfigs' = reconfigs + 1
    /\ UNCHANGED <<requestVars, docuVars>>

Reconfig(host, port, mode) ==
    /\ reconfigs < MaxReconfigs
    /\ rules' = [rules EXCEPT !.host = host, !.port = port, !.mode = mode]
    /\ appConfig' = [appConfig EXCEPT !.API_HOST = ApiHost(rules'.host, rules'.port)]
    /\ reconfigs' = reconfigs + 1
    /\ UNCHANGED <<requestVars, docuVars>>

(***************************************************************************)
(* Values exchanged with the libraries.                                    *)
(*   JSON / Python values: [t |-> "str", v |-> s], [t |-> "list"],         *)
(*                         [t |-> "null"], [t |-> "obj", items |-> f]      *)
(*   request.body: [kind |-> "malformed"] (non-empty bytes, not JSON),     *)
(*                 [kind |-> "empty"], [kind |-> "json", value |-> j]      *)
(***************************************************************************)
Str(s) == [t |-> "str", v |-> s]
List == [t |-> "list"]
Null == [t |-> "null"]
Obj(items) == [t |-> "obj", items |-> items]

Texts == {"hi", "ok"}
Scalars == {Str(s) : s \in Texts} \cup {List, Null}

\* The example models of the module docstring: InputModelExample has the
\* field param, OutputModelExample the field message, both str.
InFields == <<"param">>
OutFields == <<"message">>
FieldType == [param |-> "str", message |-> "str"]

Range(seq) == {seq[i] : i \in DOMAIN seq}

\* Mappings over the model's fields and one key the model does not declare.
Mappings(fields) ==
    UNION {[keys -> Scalars] : keys \in SUBSET (Range(fields) \cup {"extra"})}

Bodies ==
    {[kind |-> "malformed"], [kind |-> "empty"]}
    \cup {[kind |-> "json", value |-> j] :
              j \in {List, Str("hi")} \cup {Obj(m) : m \in Mappings(InFields)}}

\* model(**items): pydantic validation of a mapping against the model;
\* undeclared keys are ignored, the instance holds the plain field values.
Validate(fields, items) ==
    IF \E f \in Range(fields) : f \notin DOMAIN items
    THEN [ok |-> FALSE, err |-> "field required"]
    ELSE IF \E f \in Range(fields) : items[f].t # FieldType[f]
    THEN [ok |-> FALSE, err |-> "str type expected"]
    ELSE [ok |-> TRUE, value |-> [f \in Range(fields) |-> items[f].v]]

\* model.parse_raw(request.body); ok = FALSE stands for ValidationError.
ParseRaw(fields, body) ==
    IF body.kind # "json" THEN [ok |-> FALSE, err |-> "invalid json"]
    ELSE IF body.value.t # "obj" THEN [ok |-> FALSE, err |-> "value is not a valid dict"]
    ELSE Validate(fields, body.value.items)

\* request.json: the decoded body, None for an empty body; ok = FALSE
\* stands for the InvalidUsage the framework raises on undecodable bytes.
RequestJson(body) ==
    IF body.kind = "json" THEN [ok |-> TRUE, value |-> body.value]
    ELSE IF body.kind = "empty" THEN [ok |-> TRUE, value |-> None]
    ELSE [ok |-> FALSE, err |-> "Failed when parsing body as json"]

\* Exceptions: SanicException and its subclasses carry a status code.
SanicTypes == {"SanicException", "PreconditionFailed", "ServerError",
               "InvalidUsage", "NotFound"}
IsSanicException(e) == e.type \in SanicTypes
Exc(type, status_code, message) ==
    [t |-> "exception", type |-> type, status_code |-> status_code, message |-> message]
PreconditionFailed(msg, status_code) == Exc("PreconditionFailed", status_code, msg)
ServerError(msg) == Exc("ServerError", 500, msg)
InvalidUsage(msg) == Exc("InvalidUsage", 400, msg)

(***************************************************************************)
(* decorators.py: the decorator stack built by service_endpoint.  The      *)
(* sanic_openapi annotations (lines 84-96) record metadata and return the  *)
(* function they are given, so the route's handler is the wrapper of       *)
(* api_inputmodel, around the wrapper of api_outputmodel, around the       *)
(* endpoint function.                                                      *)
(***************************************************************************)
Api == "example"
ServiceLogger == "service_logger"

\* '.'-separated endpoints as the router names them: a route of the app,
\* a route of a blueprint, a route of a nested blueprint group.
Endpoints == {<<"e">>, <<"b", ".", "e">>, <<"b", ".", "s", ".", "e">>}

InvalidParamsMsg(json, err) ==
    <<"API: ", Api, " - invalid params (", json, ") passed to ",
      rules.servicename, ": ", err>>

InternalErrorMsgNoApi(err) ==
    <<"an internal error occured (service: ", rules.servicename, "): ", err>>

InternalErrorMsg(err) ==
    <<"an internal error occured (service: ", rules.servicename,
      ", api: ", Api, "): ", err>>

CallKwargsRootLogger(params) ==
    [service_params |-> params, service_logger |-> "sanic.root"]

\* The keyword arguments of the call of the wrapped function.
CallKwargs(params) == [service_params |-> params, service_logger |-> ServiceLogger]

\* What the endpoint function may return: an instance of the output model,
\* a mapping, or None.
Instances(fields) ==
    {[kind |-> "instance", fields |-> d] : d \in [Range(fields) -> Texts]}
HandlerResults ==
    Instances(OutFields)
    \cup {[kind |-> "mapping", items |-> m] : m \in Mappings(OutFields)}
    \cup {[kind |-> "none"]}

\* What the endpoint function may raise.
HandlerExceptions ==
    {Exc("ValueError", 0, <<"boom">>), Exc("NotFound", 404, <<"no such thing">>)}

\* result.dict() serialised by response.json: the JSON text, as tokens.
Quote(s) == <<"\"", s, "\"">>
RECURSIVE JsonDumps(_, _)
JsonDumps(fields, d) ==
    IF fields = <<>> THEN <<>>
    ELSE Quote(Head(fields)) \o <<":">> \o Quote(d[Head(fields)])
         \o (IF Len(fields) > 1 THEN <<",">> ELSE <<>>)
         \o JsonDumps(Tail(fields), d)

ResponseJson(fields, d) ==
    [status |-> 200, content_type |-> "application/json",
     body |-> <<"{">> \o JsonDumps(fields, d) \o <<"}">>]

ToModelAlwaysConverts(fields, result) ==
    IF result.kind = "mapping" THEN Validate(fields, result.items)
    ELSE [ok |-> FALSE, err |-> "argument after ** must be a mapping"]

\* Lines 170-174: the instance the response is built from.
ToModel(fields, result) ==
    IF result.kind = "instance" THEN [ok |-> TRUE, value |-> result.fields]
    ELSE IF result.kind = "mapping" THEN Validate(fields, result.items)
    ELSE [ok |-> FALSE, err |-> "argument after ** must be a mapping"]

Receive(body, endpoint) ==
    /\ pc \in {"idle", "responded"}
    /\ served < MaxRequests
    /\ served' = served + 1
    /\ request' = [body |-> body, endpoint |-> endpoint]
    /\ pc' = "api_inputmodel"
    /\ kwargs' = None
    /\ handlerCalls' = 0
    /\ handlerArgs' = None
    /\ service_result' = None
    /\ inner_result' = None
    /\ exception' = None
    /\ delegated' = None
    /\ response' = None
    /\ log' = <<>>
    /\ stages' = <<>>
    /\ UNCHANGED <<rulesVars, docuVars>>

ApiInputModelNoRaise ==
    /\ pc = "api_inputmodel"
    /\ LET parsed == ParseRaw(InFields, request.body)
       IN  IF parsed.ok
           THEN /\ kwargs' = CallKwargs(parsed.value)
                /\ stages' = stages \o <<"input_start", "input_ok">>
                /\ UNCHANGED log
           ELSE /\ log' = Append(log, [level |-> "warning", msg |-> <<parsed.err>>])
                /\ kwargs' = CallKwargs(None)
                /\ stages' = Append(stages, "input_start")
    /\ pc' = "handler"
    /\ UNCHANGED <<request, handlerCalls, handlerArgs, service_result, exception,
                   inner_result, delegated, response, served>>
    /\ UNCHANGED <<rulesVars, docuVars>>

\* api_inputmodel.function_wrapper up to the call of the wrapped function.
ApiInputModel ==
    /\ pc = "api_inputmodel"
    /\ LET parsed == ParseRaw(InFields, request.body)
           json == RequestJson(request.body)
       IN  IF parsed.ok
           THEN /\ kwargs' = CallKwargs(parsed.value)
                /\ stages' = stages \o <<"input_start", "input_ok">>
                /\ pc' = "handler"
                /\ UNCHANGED <<exception, log>>
           ELSE IF json.ok
           THEN /\ log' = Append(log, [level |-> "warning",
                                       msg |-> InvalidParamsMsg(json.value, parsed.err)])
                /\ exception' = PreconditionFailed(
                                    InvalidParamsMsg(json.value, parsed.err), 412)
                /\ stages' = Append(stages, "input_start")
                /\ pc' = "raised"
                /\ UNCHANGED kwargs
           ELSE /\ exception' = InvalidUsage(<<json.err>>)
                /\ stages' = Append(stages, "input_start")
                /\ pc' = "raised"
                /\ UNCHANGED <<kwargs, log>>
    /\ UNCHANGED <<request, handlerCalls, handlerArgs, service_result,
                   inner_result, delegated, response, served>>
    /\ UNCHANGED <<rulesVars, docuVars>>

\* The endpoint function, reached through the wrapper of api_outputmodel
\* (line 168) and the innermost wrapper (line 107), which pass the keyword
\* arguments on.
Handler ==
    /\ pc = "handler"
    /\ handlerCalls' = handlerCalls + 1
    /\ handlerArgs' = kwargs
    /\ \/ \E r \in HandlerResults :
            /\ service_result' = r
            /\ stages' = stages \o <<"handler_start", "handler_return">>
            /\ pc' = "api_outputmodel"
            /\ UNCHANGED exception
       \/ \E e \in HandlerExceptions :
            /\ exception' = e
            /\ stages' = Append(stages, "handler_start")
            /\ pc' = "raised"
            /\ UNCHANGED service_result
    /\ UNCHANGED <<request, kwargs, inner_result, delegated, response, log, served>>
    /\ UNCHANGED <<rulesVars, docuVars>>

\* Lines 169-178: the response for the value the wrapped function returned,
\* or the ServerError raised in its place.
Outcome(service_res) ==
    LET result == ToModel(OutFields, service_res)
    IN  IF result.ok
        THEN [ok |-> TRUE, result |-> result.value,
              output |-> ResponseJson(OutFields, result.value)]
        ELSE [ok |-> FALSE, exc |-> ServerError(InternalErrorMsg(result.err))]

\* api_outputmodel.function_wrapper after the wrapped function returned.
ApiOutputModel ==
    /\ pc = "api_outputmodel"
    /\ stages' = Append(stages, "output_start")
    /\ LET out == Outcome(service_result)
       IN  IF out.ok
           THEN /\ log' = Append(log, [level |-> "info",
                                       msg |-> <<"processed result ", out.result,
                                                 " => ", out.output.content_type, " [",
                                                 out.output.status, "] ", out.output.body>>])
                /\ inner_result' = out.output
                /\ pc' = "inner_returned"
                /\ UNCHANGED exception
           ELSE /\ exception' = out.exc
                /\ pc' = "raised"
                /\ UNCHANGED <<inner_result, log>>
    /\ UNCHANGED <<request, kwargs, handlerCalls, handlerArgs, service_result,
                   delegated, response, served>>
    /\ UNCHANGED <<rulesVars, docuVars>>

\* api_inputmodel.function_wrapper after the wrapped function returned.
ApiInputModelReturn ==
    /\ pc = "inner_returned"
    /\ response' = inner_result
    /\ pc' = "responded"
    /\ UNCHANGED <<request, kwargs, handlerCalls, handlerArgs, service_result,
                   inner_result, exception, delegated, log, stages, served>>
    /\ UNCHANGED <<rulesVars, docuVars>>

(***************************************************************************)
(* errors.py: ServiceErrorHandler                                          *)
(***************************************************************************)

\* s.split(sep) for a one-character separator.
RECURSIVE Split(_, _)
Split(s, sep) ==
    IF \A i \in DOMAIN s : s[i] # sep THEN <<s>>
    ELSE LET i == CHOOSE k \in DOMAIN s :
                      s[k] = sep /\ \A j \in 1..(k - 1) : s[j] # sep
         IN  <<SubSeq(s, 1, i - 1)>> \o Split(SubSeq(s, i + 1, Len(s)), sep)

\* ''.join(parts)
RECURSIVE Join(_)
Join(parts) == IF parts = <<>> THEN <<>> ELSE Head(parts) \o Join(Tail(parts))

SliceAll(parts) == parts

\* parts[1:]
Slice1(parts) == SubSeq(parts, 2, Len(parts))

Location(endpoint) == <<rules.servicename, "/", Join(Slice1(Split(endpoint, ".")))>>

InApiMsg(endpoint, exc) == <<"in api ", Location(endpoint), ": ", exc.message>>

\* The framework's ErrorHandler.default: the response for the exception.
ErrorHandlerDefault(exc) ==
    [status |-> exc.status_code, content_type |-> "text/plain",
     body |-> <<"Error: ", exc.message>>]

\* ServiceErrorHandler.default, which the application calls for every
\* exception that leaves a route handler.
Default ==
    /\ pc = "raised"
    /\ log' = Append(log, [level |-> "error", msg |-> exception])
    /\ delegated' = IF IsSanicException(exception) THEN exception
                    ELSE ServerError(InApiMsg(request.endpoint, exception))
    /\ response' = ErrorHandlerDefault(delegated')
    /\ pc' = "responded"
    /\ UNCHANGED <<request, kwargs, handlerCalls, handlerArgs, service_result,
                   inner_result, exception, stages, served>>
    /\ UNCHANGED <<rulesVars, docuVars>>

(***************************************************************************)
(* tools/create_docu.py: main() and the functions it calls.  fs is the     *)
(* part of the working directory the script reads or writes:               *)
(*   docs      "absent", "dir" or "file" (an entry that is no directory)   *)
(*   index     docs/index.md: "absent", "placeholder" (written by the      *)
(*             script) or "user" (anything else)                           *)
(*   mkdocs    mkdocs.yml: "absent", "template" (written by the script)    *)
(*             or "user"                                                   *)
(*   projectmd docs/<project_name>.md exists                               *)
(*   site      the rendered site exists                                    *)
(***************************************************************************)
Running == 0 - 1
Statuses == {0, 1}

\* parse_options(): -p/--project_name is required; argparse exits with
\* status 2 when it is missing.
ParseOptions(given) ==
    /\ dpc \in {"idle", "exit"}
    /\ runs < MaxRuns
    /\ runs' = runs + 1
    /\ fs0' = fs
    /\ toolStatus' = <<>>
    /\ IF given THEN dpc' = "parsed" /\ exitCode' = Running
                ELSE dpc' = "exit" /\ exitCode' = 2
    /\ UNCHANGED fs
    /\ UNCHANGED <<rulesVars, requestVars>>

CreatingDocsFolder ==
    /\ dpc = "parsed"
    /\ fs' = IF fs.docs = "absent"
             THEN [fs EXCEPT !.docs = "dir", !.index = "placeholder"]
             ELSE fs
    /\ dpc' = "docs_done"
    /\ UNCHANGED <<fs0, toolStatus, exitCode, runs>>
    /\ UNCHANGED <<rulesVars, requestVars>>

CreatingMkdocsFileOverwrites ==
    /\ dpc = "docs_done"
    /\ fs' = [fs EXCEPT !.mkdocs = "template"]
    /\ dpc' = "mkdocs_done"
    /\ UNCHANGED <<fs0, toolStatus, exitCode, runs>>
    /\ UNCHANGED <<rulesVars, requestVars>>

CreatingMkdocsFile ==
    /\ dpc = "docs_done"
    /\ fs' = IF fs.mkdocs = "absent" THEN [fs EXCEPT !.mkdocs = "template"] ELSE fs
    /\ dpc' = "mkdocs_done"
    /\ UNCHANGED <<fs0, toolStatus, exitCode, runs>>
    /\ UNCHANGED <<rulesVars, requestVars>>

\* creating_docu, line 39: os.system('pydocmd simple ... > docs/<name>.md').
\* The shell opens the redirection target first; os.system returns the
\* status and raises nothing.
CreatingDocuPydocmd ==
    /\ dpc = "mkdocs_done"
    /\ \E st \in Statuses :
         /\ fs.docs # "dir" => st # 0
         /\ toolStatus' = Append(toolStatus, st)
    /\ fs' = [fs EXCEPT !.projectmd = @ \/ fs.docs = "dir"]
    /\ dpc' = "pydocmd_done"
    /\ UNCHANGED <<fs0, exitCode, runs>>
    /\ UNCHANGED <<rulesVars, requestVars>>

\* creating_docu, line 41: os.system('mkdocs build').
CreatingDocuMkdocs ==
    /\ dpc = "pydocmd_done"
    /\ \E st \in Statuses :
         /\ toolStatus' = Append(toolStatus, st)
         /\ fs' = [fs EXCEPT !.site = @ \/ st = 0]
    /\ dpc' = "built"
    /\ UNCHANGED <<fs0, exitCode, runs>>
    /\ UNCHANGED <<rulesVars, requestVars>>

\* main() returns and the interpreter exits.
MainReturn ==
    /\ dpc = "built"
    /\ exitCode' = 0
    /\ dpc' = "exit"
    /\ UNCHANGED <<fs, fs0, toolStatus, runs>>
    /\ UNCHANGED <<rulesVars, requestVars>>

(***************************************************************************)
(* Specifications                                                          *)
(***************************************************************************)

\* BaseServiceRules(...) followed by __post_init__.
Construct(names, hosts, ports, debugs, modes) ==
    \E n \in names, h \in hosts, p \in ports, d \in debugs, m \in modes,
       v \in Versions :
        /\ rules = PostInitRules(NewRules(n, h, p, d, m), v)
        /\ appConfig = PostInitConfig(rules)
        /\ reconfigs = 0

NoRequest ==
    /\ pc = "idle"
    /\ request = None
    /\ kwargs = None
    /\ handlerCalls = 0
    /\ handlerArgs = None
    /\ service_result = None
    /\ inner_result = None
    /\ exception = None
    /\ delegated = None
    /\ response = None
    /\ log = <<>>
    /\ stages = <<>>
    /\ served = 0

WorkingDirs ==
    {d \in [docs : {"absent", "dir", "file"}, index : {"absent", "user"},
            mkdocs : {"absent", "user"}, projectmd : {FALSE}, site : {FALSE}] :
        d.index # "absent" => d.docs = "dir"}

NotStarted(dirs) ==
    /\ fs \in dirs
    /\ fs0 = fs
    /\ dpc = "idle"
    /\ toolStatus = <<>>
    /\ exitCode = Running
    /\ runs = 0

DefaultDir ==
    [docs |-> "absent", index |-> "absent", mkdocs |-> "absent",
     projectmd |-> FALSE, site |-> FALSE]

\* The configuration record: construction and reconfig.
InitRules ==
    /\ Construct(ServiceNames, Hosts, Ports, BOOLEAN, Modes)
    /\ NoRequest
    /\ NotStarted({DefaultDir})

NextRules == \E h \in Hosts, p \in Ports, m \in Modes : Reconfig(h, p, m)

SpecRules == InitRules /\ [][NextRules]_vars

\* A service serving requests through an endpoint of service_endpoint.
Init ==
    /\ Construct(ServiceNames, {<<"l", "h">>}, {80}, {FALSE}, {"devl"})
    /\ NoRequest
    /\ NotStarted({DefaultDir})

Next ==
    \/ \E b \in Bodies, e \in Endpoints : Receive(b, e)
    \/ ApiInputModel
    \/ Handler
    \/ ApiOutputModel
    \/ ApiInputModelReturn
    \/ Default

Spec == Init /\ [][Next]_vars

\* Runs of the documentation-site generator.
InitDocu ==
    /\ Construct({"svc"}, {<<"l", "h">>}, {80}, {FALSE}, {"devl"})
    /\ NoRequest
    /\ NotStarted(WorkingDirs)

NextDocu ==
    \/ \E given \in BOOLEAN : ParseOptions(given)
    \/ CreatingDocsFolder
    \/ CreatingMkdocsFile
    \/ CreatingDocuPydocmd
    \/ CreatingDocuMkdocs
    \/ MainReturn

SpecDocu == InitDocu /\ [][NextDocu]_vars

(***************************************************************************)
(* Claims                                                                  *)
(***************************************************************************)

\* The body is a JSON object that has every field of the input model with
\* the field's type.
Conforms(body) ==
    /\ body.kind = "json"
    /\ body.value.t = "obj"
    /\ \A f \in Range(InFields) :
         f \in DOMAIN body.value.items /\ body.value.items[f].t = "str"

\* The mapping has every field of the output model with the field's type.
Convertible(res) ==
    /\ res.kind = "mapping"
    /\ \A f \in Range(OutFields) : f \in DOMAIN res.items /\ res.items[f].t = "str"

InputDone == pc \in {"handler", "api_outputmodel", "inner_returned", "raised", "responded"}
OutputDone == \E i \in DOMAIN stages : stages[i] = "output_start"
Logged(level) == \E i \in DOMAIN log : log[i].level = level

\* C1: once api_inputmodel has dealt with a request whose body does not
\* conform to the input schema (undecodable bytes, a missing field, a value
\* of the wrong type), the request has ended with PreconditionFailed of
\* status 412 and the wrapped function has not been called.
C1_InvalidBodyRaises412 ==
    (InputDone /\ ~Conforms(request.body)) =>
        /\ pc \in {"raised", "responded"}
        /\ exception.type = "PreconditionFailed"
        /\ exception.status_code = 412
        /\ handlerCalls = 0

\* C2: for a body that conforms to the input schema the wrapped function is
\* called exactly once, with service_params holding the payload's values of
\* the model's fields and with the service logger, and what it returns is
\* returned unchanged.
C2_ValidBodyForwarded ==
    (InputDone /\ Conforms(request.body)) =>
        /\ pc = "handler" => handlerCalls = 0
        /\ pc # "handler" =>
             /\ handlerCalls = 1
             /\ DOMAIN handlerArgs = {"service_params", "service_logger"}
             /\ handlerArgs.service_logger = ServiceLogger
             /\ DOMAIN handlerArgs.service_params = Range(InFields)
             /\ \A f \in Range(InFields) :
                  handlerArgs.service_params[f] = request.body.value.items[f].v
        /\ (pc = "responded" /\ OutputDone /\ exception = None) =>
             response = inner_result

C2_Witness ==
    /\ pc = "responded"
    /\ Conforms(request.body)
    /\ "extra" \in DOMAIN request.body.value.items
    /\ handlerCalls = 1
    /\ handlerArgs.service_params.param = "hi"
    /\ response.status = 200

\* The value the JSON text body gives the field f.
JsonField(body, f) ==
    LET k == CHOOSE k \in DOMAIN body :
                 body[k] = f /\ body[k + 1] = "\"" /\ body[k + 2] = ":"
    IN  body[k + 4]

InstanceOf(res) ==
    [kind |-> "instance", fields |-> [f \in Range(OutFields) |-> res.items[f].v]]

\* C3: for a returned mapping that is convertible to the output model,
\* api_outputmodel returns the response it produces for the instance built
\* from the mapping: status 200, JSON, each field with the mapping's value.
C3_MappingLikeInstance ==
    (OutputDone /\ Convertible(service_result)) =>
        /\ pc \in {"inner_returned", "responded"}
        /\ Outcome(InstanceOf(service_result)).ok
        /\ inner_result = Outcome(InstanceOf(service_result)).output
        /\ inner_result.status = 200
        /\ inner_result.content_type = "application/json"
        /\ \A f \in Range(OutFields) :
             JsonField(inner_result.body, f) = service_result.items[f].v

C3_Witness ==
    /\ pc = "inner_returned"
    /\ Convertible(service_result)
    /\ "extra" \in DOMAIN service_result.items
    /\ inner_result.body = <<"{", "\"", "message", "\"", ":", "\"", "ok", "\"", "}">>

ConversionErrors ==
    {"field required", "str type expected", "argument after ** must be a mapping"}

\* C4: for a returned value that is neither an instance of the output model
\* nor convertible to it, api_outputmodel raises ServerError (status 500)
\* whose message holds the service name, the api name and the text of the
\* original error, and returns no response.
C4_ConversionFailureIsServerError ==
    (OutputDone /\ service_result.kind # "instance" /\ ~Convertible(service_result)) =>
        /\ pc \in {"raised", "responded"}
        /\ inner_result = None
        /\ pc = "raised" => response = None
        /\ \E err \in ConversionErrors :
             exception = [t |-> "exception", type |-> "ServerError", status_code |-> 500,
                          message |-> <<"an internal error occured (service: ",
                                        rules.servicename, ", api: ", "example",
                                        "): ", err>>]

C4_Witness ==
    /\ pc = "raised"
    /\ OutputDone
    /\ service_result.kind = "mapping"
    /\ "message" \in DOMAIN service_result.items
    /\ exception.type = "ServerError"
    /\ exception.message[6] = "str type expected"

PortText(port) ==
    CASE port = 0 -> <<"0">>
      [] port = 80 -> <<"8", "0">>
      [] port = 8080 -> <<"8", "0", "8", "0">>

OtherFields ==
    {"servicename", "debug", "title", "description", "contact_email", "version",
     "produces_content_types", "workers", "app"}

\* C5: after construction and after every reconfig, API_HOST is
\* "<host>:<port>" of the record's host and port, and reconfig changes no
\* other field of the record and no other setting of the application.
C5_ApiHostFollowsReconfig ==
    /\ [](appConfig.API_HOST = rules.host \o <<":">> \o PortText(rules.port))
    /\ [][/\ \A f \in OtherFields : rules'[f] = rules[f]
          /\ \A k \in DOMAIN appConfig \ {"API_HOST"} : appConfig'[k] = appConfig[k]
          /\ DOMAIN rules' = DOMAIN rules
          /\ DOMAIN appConfig' = DOMAIN appConfig]_vars

C5_Witness ==
    /\ reconfigs = 2
    /\ rules.mode = "prod"
    /\ appConfig.API_HOST = <<"0", ".", "0", ":", "8", "0", "8", "0">>

\* C6 as stated: a framework exception is handed to the framework's default
\* handler as it is; any other exception is handed over as a ServerError
\* whose message names the service and the dotted endpoint path.
C6_TaggedWithDottedEndpoint ==
    (pc = "responded" /\ exception # None) =>
        IF exception.type \in SanicTypes
        THEN delegated = exception
        ELSE delegated = [t |-> "exception", type |-> "ServerError", status_code |-> 500,
                          message |-> <<"in api ",
                                        <<rules.servicename, "/", request.endpoint>>,
                                        ": ", exception.message>>]

\* The endpoint without its first '.'-separated component and without dots.
Stripped(endpoint) ==
    IF \A i \in DOMAIN endpoint : endpoint[i] # "." THEN <<>>
    ELSE LET i == CHOOSE k \in DOMAIN endpoint :
                      endpoint[k] = "." /\ \A j \in 1..(k - 1) : endpoint[j] # "."
             IsNoDot(c) == c # "."
         IN  SelectSeq(SubSeq(endpoint, i + 1, Len(endpoint)), IsNoDot)

\* C6 amended: a framework exception is handed to the framework's default
\* handler as it is; any other exception is handed over as a ServerError
\* whose message names the service and the endpoint stripped of its first
\* dot-separated component and of its dots.
C6_TaggedWithStrippedEndpoint ==
    (pc = "responded" /\ exception # None) =>
        /\ response = [status |-> delegated.status_code, content_type |-> "text/plain",
                       body |-> <<"Error: ", delegated.message>>]
        /\ IF exception.type \in SanicTypes
           THEN delegated = exception
           ELSE delegated = [t |-> "exception", type |-> "ServerError",
                             status_code |-> 500,
                             message |-> <<"in api ",
                                           <<rules.servicename, "/",
                                             Stripped(request.endpoint)>>,
                                           ": ", exception.message>>]

C6_Witness ==
    /\ pc = "responded"
    /\ exception # None
    /\ exception.type = "ValueError"
    /\ request.endpoint = <<"b", ".", "s", ".", "e">>
    /\ delegated.message[2][3] = <<"s", "e">>

StageOrder == <<"input_start", "input_ok", "handler_start", "handler_return", "output_start">>

\* C7: the stages of a request run in the order input parsing, endpoint
\* function, output serialisation: the function starts only after the body
\* was parsed successfully, serialisation only after the function returned.
C7_StagesInOrder ==
    /\ Len(stages) <= Len(StageOrder)
    /\ \A i \in DOMAIN stages : stages[i] = StageOrder[i]
    /\ handlerCalls > 0 => (Len(stages) >= 3 /\ Conforms(request.body))
    /\ pc = "handler" => stages = SubSeq(StageOrder, 1, 2)
    /\ pc = "api_outputmodel" => stages = SubSeq(StageOrder, 1, 4)
    /\ pc = "inner_returned" => stages = StageOrder

C7_Witness ==
    /\ pc = "responded"
    /\ stages = StageOrder
    /\ response.status = 200

\* C8: every error response is preceded by a log record: a request whose body
\* fails validation has a warning logged, an exception that reaches the
\* error handler an error.
C8_ErrorsLoggedBeforeResponse ==
    (pc = "responded" /\ exception # None) =>
        /\ Logged("error")
        /\ ~Conforms(request.body) => Logged("warning")

Unchanged(field) == fs[field] = fs0[field]

\* C9 as stated: when the external tools are invoked, docs/index.md and
\* mkdocs.yml both exist.
C9_IndexAndConfigExist ==
    dpc = "mkdocs_done" => (fs.index # "absent" /\ fs.mkdocs # "absent")

\* C9 amended: the generator creates the docs directory with docs/index.md
\* when no entry named docs exists and mkdocs.yml when it is absent, leaves
\* what is present untouched, so that an entry named docs and mkdocs.yml
\* exist when the tools are invoked, and a run that finds both creates
\* nothing.
C9_CreatesOnlyWhatIsAbsent ==
    /\ dpc \in {"docs_done", "mkdocs_done"} =>
         IF fs0.docs = "absent"
         THEN fs.docs = "dir" /\ fs.index = "placeholder"
         ELSE Unchanged("docs") /\ Unchanged("index")
    /\ dpc = "docs_done" => Unchanged("mkdocs")
    /\ dpc = "mkdocs_done" =>
         /\ IF fs0.mkdocs = "absent" THEN fs.mkdocs = "template" ELSE Unchanged("mkdocs")
         /\ fs.docs # "absent"
         /\ fs.mkdocs # "absent"
    /\ (dpc = "exit" /\ exitCode = 0) => (fs.docs # "absent" /\ fs.mkdocs # "absent")
    /\ (fs0.docs # "absent" /\ fs0.mkdocs # "absent") =>
         (Unchanged("docs") /\ Unchanged("index") /\ Unchanged("mkdocs"))

C9_Witness ==
    /\ runs = 2
    /\ dpc = "mkdocs_done"
    /\ fs.index = "placeholder"
    /\ fs.mkdocs = "template"
    /\ fs.site
    /\ Unchanged("docs") /\ Unchanged("index") /\ Unchanged("mkdocs")

\* C10: once an external tool has failed, the generator does not finish
\* with exit code 0.
C10_ToolFailureFailsRun ==
    (dpc = "exit" /\ \E i \in DOMAIN toolStatus : toolStatus[i] # 0) => exitCode # 0

====
